---- MODULE Spec2Model ----
(***************************************************************************)
(* Model of manage/delete-registry-image.py: the registry cleanup run.     *)
(* One run of main(): list the catalog, process every repository (resolve  *)
(* tag metadata, decide, delete), run garbage collection, sweep orphans.   *)
(* Time is counted in whole days; the registry, the process runner and the *)
(* filesystem are external and answer nondeterministically.                *)
(***************************************************************************)
EXTENDS Integers, Sequences, FiniteSets, TLC

\* ---------------------------------------------------------------- bounds
MaxTags == 2
MaxTime == 1
MaxRecent == 2
MaxDays == 1

Times == 0..MaxTime
NowValues == 1..MaxTime
RecentCounts == 0..MaxRecent
DayCounts == 0..MaxDays

\* ------------------------------------------------- the registry's content
Repos == {"r1", "r2"}
Catalog == <<"r1", "r2">>
TagNames == <<"a", "b", "c", "d">>
TagSet == { TagNames[i] : i \in 1..Len(TagNames) }
\* every tag has a manifest of its own, or tags a and b are aliases of one manifest
DigestMaps == { [t \in TagSet |-> "sha:" \o t],
                [t \in TagSet |-> IF t = "b" THEN "sha:a" ELSE "sha:" \o t] }

TagRecord(t, c, d) == [tag |-> t, created |-> c, digest |-> d]

\* the tag lists a repository can hold when the run starts
\* tags that are aliases of one manifest share its config blob, hence its date
SameManifestSameDate(recs) ==
    \A i, j \in 1..Len(recs) :
        recs[i].digest = recs[j].digest => recs[i].created = recs[j].created

RepoContents ==
    { recs \in UNION { { [i \in 1..n |->
                            TagRecord(TagNames[i], ct[i], dm[TagNames[i]])] :
                          ct \in [1..n -> Times], dm \in DigestMaps } : n \in 0..MaxTags } :
        SameManifestSameDate(recs) }

SecondRepoContents == { <<TagRecord("a", 0, "sha:a")>> }

\* ------------------------------------------------------------------ state
VARIABLES
    EXCLUDE_REPOS,            \* line 26
    DEFAULT_RECENT_IMAGES,    \* line 25
    DEFAULT_DAYS_THRESHOLD,   \* line 24
    SPECIFIC_RECENT_IMAGES,   \* lines 30-34
    SPECIFIC_DAYS_THRESHOLD,  \* lines 36-40
    registry,                 \* the registry's tags per repository (external)
    clock,                    \* the last reading of datetime.now (days)
    pc,                       \* position of the run
    repositories,             \* main: the fetched catalog
    repoIdx,                  \* main: index of the for loop
    tags,                     \* process_repository: fetched tag names
    tagIdx,                   \* process_repository: index of the resolve loop
    tag_details,              \* process_repository: resolved records
    recent_tags,              \* process_repository: protected tag names
    threshold_date,           \* process_repository: <<threshold>> once computed
    delIdx,                   \* process_repository: index of the delete loop
    deleted_count,            \* process_repository: counter
    sweepRepos,               \* remove_empty_repositories: the re-listed catalog
    sweepIdx,                 \* remove_empty_repositories: index of the loop
    fetchCalls,               \* repositories a tags/manifest/blob GET was issued for
    deleteCalls,              \* DELETE requests issued: <<repository, tag, digest>>
    acceptedDeletes,          \* DELETE requests answered 202
    unresolved,               \* <<repository, tag>> whose metadata did not resolve
    gcCalls,                  \* number of garbage-collect invocations
    gcOutcome,                \* "none", "ok", "exit_nonzero", "launch_failed"
    sweepStarted,             \* remove_empty_repositories was entered
    removed,                  \* repositories whose storage was rm -rf'ed
    inFlight,                 \* DELETE requests cut off by the exit on SIGINT
    log,                      \* the messages logged so far: <<kind, detail, tag>>
    python311,                \* the interpreter is 3.11 or later (fromisoformat)
    created_date,             \* fetch_creation_date: blob_data.get("created")
    fixed_date,               \* fetch_creation_date: the string handed to the parser
    dt,                       \* fetch_creation_date: the parsed datetime
    parsePc                   \* position inside fetch_creation_date, lines 82-86

cfgVars == <<EXCLUDE_REPOS, DEFAULT_RECENT_IMAGES, DEFAULT_DAYS_THRESHOLD,
             SPECIFIC_RECENT_IMAGES, SPECIFIC_DAYS_THRESHOLD>>
repoVars == <<tags, tagIdx, tag_details, recent_tags, threshold_date, delIdx,
              deleted_count>>
sweepVars == <<sweepRepos, sweepIdx, sweepStarted, removed>>
gcVars == <<gcCalls, gcOutcome>>
parseVars == <<python311, created_date, fixed_date, dt, parsePc>>
runVars == <<cfgVars, registry, clock, pc, repositories, repoIdx, repoVars, sweepVars,
             fetchCalls, deleteCalls, acceptedDeletes, unresolved, gcVars, inFlight, log>>
vars == <<runVars, parseVars>>

\* -------------------------------------------------------- pure helpers
Min(a, b) == IF a < b THEN a ELSE b

\* dict.get(repository, default) of lines 134-135
Get(map, key, default) == IF key \in DOMAIN map THEN map[key] ELSE default

RecentCountOf(repository) == Get(SPECIFIC_RECENT_IMAGES, repository, DEFAULT_RECENT_IMAGES)
DaysThresholdOf(repository) == Get(SPECIFIC_DAYS_THRESHOLD, repository, DEFAULT_DAYS_THRESHOLD)

\* line 126: repository in EXCLUDE_REPOS
IsExcluded(repository) == repository \in EXCLUDE_REPOS

\* fetch_image_tags, lines 56-60: the tag names on 200, [] otherwise
TagNamesOf(recs) == [i \in 1..Len(recs) |-> recs[i].tag]
FetchImageTags(repository, status) ==
    IF status # 200 THEN <<>> ELSE TagNamesOf(registry[repository])

\* the registry's record of a tag
RecordOf(repository, tag) ==
    LET recs == registry[repository]
    IN  recs[CHOOSE i \in 1..Len(recs) : recs[i].tag = tag]


\* ------------------------------------------------------ Metadata resolver
\* what the registry answers to the two GETs that resolve one tag
ResolveOutcomes == {"ok", "manifest_non200", "no_content_digest", "no_config_digest",
                    "blob_non200", "no_created", "unparseable",
                    "manifest_raise", "blob_raise"}

\* fetch_manifest_and_config_digest, lines 62-74: (manifest, digest, config_digest)
FetchManifestAndConfigDigest(rec, outcome) ==
    IF outcome = "manifest_non200" THEN
        [manifest |-> "None", digest |-> "None", config_digest |-> "None"]
    ELSE IF outcome = "no_config_digest" THEN
        [manifest |-> "None", digest |-> "None", config_digest |-> "None"]
    ELSE
        [manifest |-> "manifest",
         digest |-> IF outcome = "no_content_digest" THEN "None" ELSE rec.digest,
         config_digest |-> "sha:config"]

\* line 140: not manifest or not digest or not config_digest
ManifestMissingIgnoreDigest(m) == m.manifest = "None" \/ m.config_digest = "None"
ManifestMissing(m) ==
    m.manifest = "None" \/ m.digest = "None" \/ m.config_digest = "None"

\* fetch_creation_date, lines 76-87: <<>> is None, <<t>> is the parsed date
FetchCreationDate(rec, outcome) ==
    IF outcome = "blob_non200" THEN <<>>
    ELSE IF outcome = "no_created" THEN <<>>
    ELSE <<rec.created>>

\* the calls of one iteration that raise: a transport error of requests.get
\* (lines 66, 79) or the ValueError of datetime.fromisoformat (line 85)
ResolveRaises(outcome) == outcome \in {"manifest_raise", "blob_raise", "unparseable"}

\* ------------------------------------------------------- Retention engine
\* list.sort(key=creation_date, reverse=True), line 153: stable, descending
RECURSIVE InsertDesc(_, _)
InsertDesc(rec, sorted) ==
    IF sorted = <<>> THEN <<rec>>
    ELSE IF Head(sorted).created >= rec.created
         THEN <<Head(sorted)>> \o InsertDesc(rec, Tail(sorted))
         ELSE <<rec>> \o sorted

RECURSIVE SortFrom(_, _)
SortFrom(seq, sorted) ==
    IF seq = <<>> THEN sorted ELSE SortFrom(Tail(seq), InsertDesc(Head(seq), sorted))

\* a descending sort that is not stable: equal keys come out in reverse order
RECURSIVE InsertTiesFirst(_, _)
InsertTiesFirst(rec, sorted) ==
    IF sorted = <<>> THEN <<rec>>
    ELSE IF Head(sorted).created > rec.created
         THEN <<Head(sorted)>> \o InsertTiesFirst(rec, Tail(sorted))
         ELSE <<rec>> \o sorted

RECURSIVE SortTiesReversedFrom(_, _)
SortTiesReversedFrom(seq, sorted) ==
    IF seq = <<>> THEN sorted
    ELSE SortTiesReversedFrom(Tail(seq), InsertTiesFirst(Head(seq), sorted))

SortTiesReversed(seq) == SortTiesReversedFrom(seq, <<>>)
SortByCreationDesc(seq) == SortFrom(seq, <<>>)

\* line 154: {tag for tag, _, _ in tag_details[:recent_count]}
RecentTagsOffByOne(details, recent_count) ==
    { details[i].tag : i \in 1..Min(recent_count - 1, Len(details)) }
RecentTags(details, recent_count) ==
    { details[i].tag : i \in 1..Min(recent_count, Len(details)) }

\* line 155: datetime.now(timezone.utc) - timedelta(days=days_threshold)
ThresholdDateAdded(now, days_threshold) == now + days_threshold
ThresholdDate(now, days_threshold) == now - days_threshold

\* line 162: creation_date < threshold_date
IsExpiredInclusive(creation_date, threshold) == creation_date <= threshold
IsExpired(creation_date, threshold) == creation_date < threshold

\* the registry after a DELETE of a manifest digest was accepted: every tag of
\* the repository that resolves to the digest is gone
RECURSIVE WithoutDigest(_, _)
WithoutDigest(recs, digest) ==
    IF recs = <<>> THEN <<>>
    ELSE IF Head(recs).digest = digest THEN WithoutDigest(Tail(recs), digest)
         ELSE <<Head(recs)>> \o WithoutDigest(Tail(recs), digest)

Logged(kind, repository, tag) == log \cup {<<kind, repository, tag>>}

\* ------------------------------------------------------------------- Init
\* the override sections of config.ini: the second repository keeps nothing and
\* has no age allowance, the first one falls back on the defaults
SpecificChoices == { [r \in {"r2"} |-> 0] }

\* fetch_creation_date is not under way
ParseIdle ==
    /\ python311 = TRUE
    /\ created_date = <<>>
    /\ fixed_date = <<>>
    /\ dt = <<>>
    /\ parsePc = "idle"

Init ==
    /\ EXCLUDE_REPOS \in { {}, {"r1"} }
    /\ DEFAULT_RECENT_IMAGES \in RecentCounts
    /\ DEFAULT_DAYS_THRESHOLD \in DayCounts
    /\ SPECIFIC_RECENT_IMAGES \in SpecificChoices
    /\ SPECIFIC_DAYS_THRESHOLD = SPECIFIC_RECENT_IMAGES
    /\ \E c1 \in RepoContents, c2 \in SecondRepoContents :
          registry = [r \in Repos |-> IF r = "r1" THEN c1 ELSE c2]
    /\ clock = 1
    /\ pc = "main"
    /\ repositories = <<>>
    /\ repoIdx = 0
    /\ tags = <<>>
    /\ tagIdx = 0
    /\ tag_details = <<>>
    /\ recent_tags = {}
    /\ threshold_date = <<>>
    /\ delIdx = 0
    /\ deleted_count = 0
    /\ sweepRepos = <<>>
    /\ sweepIdx = 0
    /\ fetchCalls = {}
    /\ deleteCalls = {}
    /\ acceptedDeletes = {}
    /\ unresolved = {}
    /\ gcCalls = 0
    /\ gcOutcome = "none"
    /\ sweepStarted = FALSE
    /\ removed = {}
    /\ inFlight = {}
    /\ log = {}
    /\ ParseIdle


\* ---------------------------------------------------------------- actions
\* the top-level except of main (lines 177-178): log and end the run
Caught(e) ==
    /\ pc' = "caught"
    /\ log' = Logged("error", e, "")

\* fetch_repositories, lines 52-53: raise_for_status on a non-success answer,
\* or the transport error of requests.get
CatalogErrors == {"catalog: HTTPError", "catalog: ConnectionError"}

\* process_repository returns to the for loop of main (line 173)
ReturnSameIndex ==
    /\ pc' = "loop"
    /\ repoIdx' = repoIdx
Return ==
    /\ pc' = "loop"
    /\ repoIdx' = repoIdx + 1

\* line 173: the for loop of main has handed every repository to
\* process_repository
AllProcessedAfterFirst == repoIdx > 1
AllProcessed == repoIdx > Len(repositories)

\* main, line 172: fetch_repositories (lines 51-54); raise_for_status and the
\* transport raise
FetchRepositories ==
    /\ pc = "main"
    /\ \/ /\ repositories' = Catalog
          /\ repoIdx' = 1
          /\ pc' = "loop"
          /\ UNCHANGED log
       \/ /\ \E e \in CatalogErrors : Caught(e)
          /\ UNCHANGED <<repositories, repoIdx>>
    /\ UNCHANGED <<parseVars, inFlight, cfgVars, registry, clock, repoVars, sweepVars, fetchCalls,
                   deleteCalls, acceptedDeletes, unresolved, gcVars>>

\* process_repository, lines 125-135: exclusion test, tag listing, policy
ProcessRepository ==
    /\ pc = "loop"
    /\ repoIdx <= Len(repositories)
    /\ LET repository == repositories[repoIdx] IN
         IF IsExcluded(repository) THEN
             /\ Return
             /\ UNCHANGED <<repoVars, fetchCalls, log>>
         ELSE
             /\ fetchCalls' = fetchCalls \cup {repository}
             /\ \/ \E status \in {200, 404} :
                     LET fetched == FetchImageTags(repository, status) IN
                       IF fetched = <<>> THEN
                           /\ Return
                           /\ log' = Logged("no_images", repository, "")
                           /\ UNCHANGED repoVars
                       ELSE
                           /\ tags' = fetched
                           /\ tagIdx' = 1
                           /\ tag_details' = <<>>
                           /\ recent_tags' = {}
                           /\ threshold_date' = <<>>
                           /\ delIdx' = 0
                           /\ deleted_count' = 0
                           /\ pc' = "resolve"
                           /\ UNCHANGED <<repoIdx, log>>
                \/ /\ Caught("tags: ConnectionError")
                   /\ UNCHANGED <<repoIdx, repoVars>>
    /\ UNCHANGED <<parseVars, inFlight, cfgVars, registry, clock, repositories, sweepVars, deleteCalls,
                   acceptedDeletes, unresolved, gcVars>>

\* process_repository, lines 138-147: one iteration of the resolve loop
ResolveTag ==
    /\ pc = "resolve"
    /\ tagIdx <= Len(tags)
    /\ LET repository == repositories[repoIdx]
           tag == tags[tagIdx]
           rec == RecordOf(repository, tag)
       IN  \E outcome \in ResolveOutcomes :
             LET m == FetchManifestAndConfigDigest(rec, outcome)
                 creation_date == FetchCreationDate(rec, outcome)
             IN  /\ unresolved' = IF outcome = "ok" THEN unresolved
                                  ELSE unresolved \cup {<<repository, tag>>}
                 /\ IF outcome = "manifest_raise" THEN
                        /\ Caught("manifest: ConnectionError")
                        /\ UNCHANGED <<tagIdx, tag_details>>
                    ELSE IF ManifestMissing(m) THEN
                        /\ tagIdx' = tagIdx + 1
                        /\ UNCHANGED <<pc, log, tag_details>>
                    ELSE IF ResolveRaises(outcome) THEN
                        /\ Caught(IF outcome = "unparseable" THEN "created: ValueError"
                                  ELSE "blob: ConnectionError")
                        /\ UNCHANGED <<tagIdx, tag_details>>
                    ELSE IF creation_date = <<>> THEN
                        /\ tagIdx' = tagIdx + 1
                        /\ UNCHANGED <<pc, log, tag_details>>
                    ELSE
                        /\ tag_details' = Append(tag_details,
                               TagRecord(tag, creation_date[1], m.digest))
                        /\ tagIdx' = tagIdx + 1
                        /\ UNCHANGED <<pc, log>>
    /\ UNCHANGED <<parseVars, inFlight, cfgVars, registry, clock, repositories, repoIdx, tags, recent_tags,
                   threshold_date, delIdx, deleted_count, sweepVars, fetchCalls,
                   deleteCalls, acceptedDeletes, gcVars>>

\* process_repository, lines 149-157: the retention decision
Decide ==
    /\ pc = "resolve"
    /\ tagIdx > Len(tags)
    /\ LET repository == repositories[repoIdx] IN
         IF tag_details = <<>> THEN
             /\ Return
             /\ log' = Logged("no_eligible", repository, "")
             /\ UNCHANGED <<clock, repoVars>>
         ELSE
             \E now \in NowValues :
                /\ now >= clock
                /\ clock' = now
                /\ tag_details' = SortByCreationDesc(tag_details)
                /\ recent_tags' = RecentTags(tag_details', RecentCountOf(repository))
                /\ threshold_date' = <<ThresholdDate(now, DaysThresholdOf(repository))>>
                /\ deleted_count' = 0
                /\ delIdx' = 1
                /\ pc' = "delete"
                /\ UNCHANGED <<repoIdx, tags, tagIdx, log>>
    /\ UNCHANGED <<parseVars, inFlight, cfgVars, registry, repositories, sweepVars, fetchCalls, deleteCalls,
                   acceptedDeletes, unresolved, gcVars>>

\* process_repository, lines 158-164, with delete_image (lines 89-94): one
\* iteration of the delete loop
DeleteStep ==
    /\ pc = "delete"
    /\ delIdx <= Len(tag_details)
    /\ LET repository == repositories[repoIdx]
           rec == tag_details[delIdx]
       IN  IF rec.tag \in recent_tags \/ ~IsExpired(rec.created, threshold_date[1]) THEN
               /\ delIdx' = delIdx + 1
               /\ UNCHANGED <<pc, log, registry, deleteCalls, acceptedDeletes,
                              deleted_count>>
           ELSE
               /\ deleteCalls' = deleteCalls \cup {<<repository, rec.tag, rec.digest>>}
               /\ \/ /\ acceptedDeletes' =
                            acceptedDeletes \cup {<<repository, rec.tag, rec.digest>>}
                     /\ registry' = [registry EXCEPT
                            ![repository] = WithoutDigest(@, rec.digest)]
                     /\ log' = Logged("deleted", repository, rec.tag)
                     /\ deleted_count' = deleted_count + 1
                     /\ delIdx' = delIdx + 1
                     /\ UNCHANGED pc
                  \/ /\ deleted_count' = deleted_count + 1
                     /\ delIdx' = delIdx + 1
                     /\ UNCHANGED <<pc, log, registry, acceptedDeletes>>
                  \/ /\ Caught("delete: ConnectionError")
                     /\ UNCHANGED <<registry, acceptedDeletes, deleted_count, delIdx>>
    /\ UNCHANGED <<parseVars, inFlight, cfgVars, clock, repositories, repoIdx, tags, tagIdx, tag_details,
                   recent_tags, threshold_date, sweepVars, fetchCalls, unresolved,
                   gcVars>>

\* process_repository, lines 166-167: the delete loop is over
FinishRepository ==
    /\ pc = "delete"
    /\ delIdx > Len(tag_details)
    /\ Return
    /\ log' = IF deleted_count = 0
              THEN Logged("within_policy", repositories[repoIdx], "")
              ELSE log
    /\ UNCHANGED <<parseVars, inFlight, cfgVars, registry, clock, repositories, repoVars, sweepVars,
                   fetchCalls, deleteCalls, acceptedDeletes, unresolved, gcVars>>

\* main line 175, run_garbage_collection (lines 97-106): subprocess.run returns,
\* raises CalledProcessError (caught, line 105), or fails to launch the command
\* (OSError, not caught there)
RunGarbageCollection ==
    /\ pc = "loop"
    /\ AllProcessed
    /\ gcCalls' = gcCalls + 1
    /\ \/ /\ gcOutcome' = "ok"
          /\ log' = Logged("gc_ok", "", "")
          /\ pc' = "sweep_list"
       \/ /\ gcOutcome' = "exit_nonzero"
          /\ log' = Logged("gc_failed", "", "")
          /\ pc' = "sweep_list"
       \/ /\ gcOutcome' = "launch_failed"
          /\ Caught("garbage-collect: OSError")
    /\ UNCHANGED <<parseVars, inFlight, cfgVars, registry, clock, repositories, repoIdx, repoVars, sweepVars,
                   fetchCalls, deleteCalls, acceptedDeletes, unresolved>>

\* main line 176, remove_empty_repositories line 111: the catalog is re-listed
SweepFetchRepositories ==
    /\ pc = "sweep_list"
    /\ sweepStarted' = TRUE
    /\ \/ /\ sweepRepos' = Catalog
          /\ sweepIdx' = 1
          /\ pc' = "sweep"
          /\ UNCHANGED log
       \/ /\ \E e \in CatalogErrors : Caught(e)
          /\ UNCHANGED <<sweepRepos, sweepIdx>>
    /\ UNCHANGED <<parseVars, inFlight, cfgVars, registry, clock, repositories, repoIdx, repoVars, removed,
                   fetchCalls, deleteCalls, acceptedDeletes, unresolved, gcVars>>

\* remove_empty_repositories, lines 112-122: one iteration of the sweep loop
SweepRepository ==
    /\ pc = "sweep"
    /\ sweepIdx <= Len(sweepRepos)
    /\ LET repo == sweepRepos[sweepIdx] IN
         /\ fetchCalls' = fetchCalls \cup {repo}
         /\ \/ \E status \in {200, 404} :
                 IF FetchImageTags(repo, status) = <<>> THEN
                     /\ sweepIdx' = sweepIdx + 1
                     /\ UNCHANGED pc
                     /\ \/ /\ log' = Logged("removing", repo, "")
                           /\ UNCHANGED <<removed, registry>>
                        \/ /\ log' = log \cup {<<"removing", repo, "">>,
                                               <<"removed", repo, "">>}
                           /\ removed' = removed \cup {repo}
                           /\ registry' = [registry EXCEPT ![repo] = <<>>]
                        \/ /\ log' = log \cup {<<"removing", repo, "">>,
                                               <<"remove_failed", repo, "">>}
                           /\ UNCHANGED <<removed, registry>>
                 ELSE
                     /\ sweepIdx' = sweepIdx + 1
                     /\ UNCHANGED <<pc, log, removed, registry>>
            \/ /\ Caught("tags: ConnectionError")
               /\ UNCHANGED <<sweepIdx, removed, registry>>
    /\ UNCHANGED <<parseVars, inFlight, cfgVars, clock, repositories, repoIdx, repoVars, sweepRepos,
                   sweepStarted, deleteCalls, acceptedDeletes, unresolved, gcVars>>

\* main returns after remove_empty_repositories (line 176)
Finish ==
    /\ pc = "sweep"
    /\ sweepIdx > Len(sweepRepos)
    /\ pc' = "done"
    /\ UNCHANGED <<parseVars, inFlight, cfgVars, registry, clock, repositories, repoIdx, repoVars, sweepVars,
                   fetchCalls, deleteCalls, acceptedDeletes, unresolved, gcVars, log>>

\* handle_interrupt, lines 12-16: SIGINT logs and exits with status 0
Interrupt ==
    /\ pc \notin {"done", "caught", "exited"}
    /\ pc' = "exited"
    /\ log' = Logged("interrupted", "", "")
    /\ UNCHANGED <<parseVars, inFlight, cfgVars, registry, clock, repositories, repoIdx, repoVars, sweepVars,
                   fetchCalls, deleteCalls, acceptedDeletes, unresolved, gcVars>>

\* handle_interrupt while requests.delete (line 92) waits for the answer: the
\* SystemExit unwinds the call, the answer is never read; the registry has
\* acted on the request or not
InterruptDuringDelete ==
    /\ pc = "delete"
    /\ delIdx <= Len(tag_details)
    /\ LET repository == repositories[repoIdx]
           rec == tag_details[delIdx]
           call == <<repository, rec.tag, rec.digest>>
       IN  /\ rec.tag \notin recent_tags
           /\ IsExpired(rec.created, threshold_date[1])
           /\ deleteCalls' = deleteCalls \cup {call}
           /\ inFlight' = inFlight \cup {call}
           /\ \/ registry' = [registry EXCEPT ![repository] = WithoutDigest(@, rec.digest)]
              \/ UNCHANGED registry
    /\ pc' = "exited"
    /\ log' = Logged("interrupted", "", "")
    /\ UNCHANGED <<parseVars, cfgVars, clock, repositories, repoIdx, repoVars, sweepVars,
                   fetchCalls, acceptedDeletes, unresolved, gcVars>>

Next ==
    \/ FetchRepositories
    \/ ProcessRepository
    \/ ResolveTag
    \/ Decide
    \/ DeleteStep
    \/ FinishRepository
    \/ RunGarbageCollection
    \/ SweepFetchRepositories
    \/ SweepRepository
    \/ Finish
    \/ Interrupt
    \/ InterruptDuringDelete

Spec == Init /\ [][Next]_vars


\* ------------------------------------------- fetch_creation_date, lines 82-86
\* A timestamp is a sequence of characters; its first element stands for the
\* date, hour and minute ("2024-01-0dT10:00:"), the seconds, the fraction and
\* the zone follow one character per element.
DigitChars == <<"0", "1", "2", "3", "4", "5", "6", "7", "8", "9">>
IsDigit(c) == \E i \in 1..Len(DigitChars) : DigitChars[i] = c
DigitVal(c) == (CHOOSE i \in 1..Len(DigitChars) : DigitChars[i] = c) - 1
AllDigits(chars) == \A i \in 1..Len(chars) : IsDigit(chars[i])
TwoDigits(chars, i) == 10 * DigitVal(chars[i]) + DigitVal(chars[i + 1])

DatePrefix(day) == "2024-01-0" \o DigitChars[day + 2] \o "T10:00:"
DayOfPrefix(prefix) == CHOOSE day \in Times : DatePrefix(day) = prefix

\* the "created" values a config blob can carry
Fractions == { <<>>, <<".", "1", "2", "3">>, <<".", "1", "2", "3", "4", "5", "6">>,
               <<".", "1", "2", "3", "4", "5", "6", "7", "8", "9">> }
ZoneHours == { <<"0", "0">>, <<"0", "5">> }
ZoneMinutes == { <<"0", "0">>, <<"3", "0">>, <<"3">> }
Zones == { <<>>, <<"Z">> } \cup
         { <<sign>> \o hh \o <<":">> \o mm :
             sign \in {"+", "-"}, hh \in ZoneHours, mm \in ZoneMinutes }
CreatedDates ==
    { <<DatePrefix(day), "0", "0">> \o fraction \o zone :
        day \in Times, fraction \in Fractions, zone \in Zones }

\* created_date[:-1], line 84
DropLast(chars) == SubSeq(chars, 1, Len(chars) - 1)

\* re.sub(r'(?<=\+\d{2}):(\d)$', r'0\1', ...), line 84
OffsetPatternAt(chars, n) ==
    /\ n >= 5
    /\ chars[n - 4] = "+"
    /\ IsDigit(chars[n - 3])
    /\ IsDigit(chars[n - 2])
    /\ chars[n - 1] = ":"
    /\ IsDigit(chars[n])
SubOffset(chars) ==
    LET n == Len(chars) IN
      IF OffsetPatternAt(chars, n)
      THEN SubSeq(chars, 1, n - 2) \o <<"0", chars[n]>>
      ELSE chars

FixedDate(created) == SubOffset(DropLast(created))

\* datetime.fromisoformat, line 85. The time string is split at the first "-",
\* else the first "+", else (3.11 and later) the first "Z".
FirstIndex(chars, c) ==
    IF \E i \in 1..Len(chars) : chars[i] = c
    THEN CHOOSE i \in 1..Len(chars) :
            chars[i] = c /\ \A j \in 1..(i - 1) : chars[j] # c
    ELSE 0
ZonePos(rest, lenient) ==
    IF FirstIndex(rest, "-") > 0 THEN FirstIndex(rest, "-")
    ELSE IF FirstIndex(rest, "+") > 0 THEN FirstIndex(rest, "+")
    ELSE IF lenient THEN FirstIndex(rest, "Z")
    ELSE 0

\* the fraction: 3 or 6 digits before 3.11, any positive number of digits since
FractionOk(fraction, lenient) ==
    /\ AllDigits(fraction)
    /\ IF lenient THEN Len(fraction) >= 1 ELSE Len(fraction) \in {3, 6}

\* the seconds and the fraction: SS[.fff[fff]]
SecondsOk(timestr, lenient) ==
    /\ Len(timestr) >= 2
    /\ IsDigit(timestr[1])
    /\ IsDigit(timestr[2])
    /\ \/ Len(timestr) = 2
       \/ /\ timestr[3] = "."
          /\ FractionOk(SubSeq(timestr, 4, Len(timestr)), lenient)

\* the zone after its sign: HH:MM before 3.11; HH, HHMM or HH:MM since
ZoneOk(zonestr, lenient) ==
    \/ /\ Len(zonestr) = 5
       /\ AllDigits(SubSeq(zonestr, 1, 2))
       /\ zonestr[3] = ":"
       /\ AllDigits(SubSeq(zonestr, 4, 5))
    \/ /\ lenient
       /\ Len(zonestr) \in {2, 4}
       /\ AllDigits(zonestr)
ZoneMinutesOf(zonestr) ==
    60 * TwoDigits(zonestr, 1) +
      (IF Len(zonestr) = 5 THEN TwoDigits(zonestr, 4)
       ELSE IF Len(zonestr) = 4 THEN TwoDigits(zonestr, 3)
       ELSE 0)

ValueError == [raised |-> TRUE, day |-> 0, tz |-> <<>>]
DateTime(day, tz) == [raised |-> FALSE, day |-> day, tz |-> tz]

FromIsoFormat(chars, lenient) ==
    LET rest == Tail(chars)
        pos == ZonePos(rest, lenient)
        timestr == IF pos > 0 THEN SubSeq(rest, 1, pos - 1) ELSE rest
        zonestr == SubSeq(rest, pos + 1, Len(rest))
        day == DayOfPrefix(Head(chars))
    IN  IF ~SecondsOk(timestr, lenient) THEN ValueError
        ELSE IF pos = 0 THEN DateTime(day, <<>>)
        ELSE IF rest[pos] = "Z" THEN
            IF pos = Len(rest) THEN DateTime(day, <<0>>) ELSE ValueError
        ELSE IF ~ZoneOk(zonestr, lenient) THEN ValueError
        ELSE DateTime(day, <<(IF rest[pos] = "-" THEN -1 ELSE 1) * ZoneMinutesOf(zonestr)>>)

\* line 86: dt if dt.tzinfo else dt.replace(tzinfo=timezone.utc)
EnsureTimezone(d) == IF d.tz = <<>> THEN DateTime(d.day, <<0>>) ELSE d

\* the run is inside one iteration of the resolve loop while a date is parsed
RunInResolve ==
    /\ EXCLUDE_REPOS = {}
    /\ DEFAULT_RECENT_IMAGES = 0
    /\ DEFAULT_DAYS_THRESHOLD = 0
    /\ SPECIFIC_RECENT_IMAGES = <<>>
    /\ SPECIFIC_DAYS_THRESHOLD = <<>>
    /\ registry = [r \in Repos |-> <<TagRecord("a", 0, "sha:a")>>]
    /\ clock = 1
    /\ pc = "resolve"
    /\ repositories = Catalog
    /\ repoIdx = 1
    /\ tags = <<"a">>
    /\ tagIdx = 1
    /\ tag_details = <<>>
    /\ recent_tags = {}
    /\ threshold_date = <<>>
    /\ delIdx = 0
    /\ deleted_count = 0
    /\ sweepRepos = <<>>
    /\ sweepIdx = 0
    /\ fetchCalls = {"r1"}
    /\ deleteCalls = {}
    /\ acceptedDeletes = {}
    /\ unresolved = {}
    /\ gcCalls = 0
    /\ gcOutcome = "none"
    /\ sweepStarted = FALSE
    /\ removed = {}
    /\ inFlight = {}
    /\ log = {}

\* lines 82-83: the blob carries a non-empty "created"
ParseInit ==
    /\ RunInResolve
    /\ python311 \in BOOLEAN
    /\ created_date \in CreatedDates
    /\ fixed_date = <<>>
    /\ dt = <<>>
    /\ parsePc = "created"

\* line 84
FixDate ==
    /\ parsePc = "created"
    /\ fixed_date' = FixedDate(created_date)
    /\ parsePc' = "fixed"
    /\ UNCHANGED <<runVars, python311, created_date, dt>>

\* line 85
ParseDate ==
    /\ parsePc = "fixed"
    /\ dt' = <<FromIsoFormat(fixed_date, python311)>>
    /\ parsePc' = IF dt'[1].raised THEN "raised" ELSE "parsed"
    /\ UNCHANGED <<runVars, python311, created_date, fixed_date>>

\* line 86
ReturnDate ==
    /\ parsePc = "parsed"
    /\ dt' = <<EnsureTimezone(dt[1])>>
    /\ parsePc' = "returned"
    /\ UNCHANGED <<runVars, python311, created_date, fixed_date>>

ParseNext ==
    \/ FixDate
    \/ ParseDate
    \/ ReturnDate

ParseSpec == ParseInit /\ [][ParseNext]_vars

\* ------------------------------------------------------------ properties
Range(seq) == { seq[i] : i \in 1..Len(seq) }
CurrentRepo == repositories[repoIdx]
DeleteIssuedIn(calls, repository, tag) ==
    \E c \in calls : c[1] = repository /\ c[2] = tag

\* the retention rule as the specification words it, from the inputs of the
\* decision: the fetched tag order, the resolved records, the policy, now
InputPos(tag) == CHOOSE i \in 1..Len(tags) : tags[i] = tag
Before(q, r) ==
    \/ q.created > r.created
    \/ q.created = r.created /\ InputPos(q.tag) < InputPos(r.tag)
ProtectedSet ==
    { r.tag : r \in { x \in Range(tag_details) :
        Cardinality({ q \in Range(tag_details) : Before(q, x) })
            < RecentCountOf(CurrentRepo) } }
Threshold == clock - DaysThresholdOf(CurrentRepo)

\* a step of the delete loop over the record at delIdx (not the interrupt)
DeleteLoopStep ==
    /\ pc = "delete"
    /\ delIdx <= Len(tag_details)
    /\ pc' # "exited"

\* C1: a repository of the exclusion set never gets a fetch call (tag list,
\* manifest, blob) nor a delete call, at any point of the run
C1_ExcludedNeverFetchedOrDeleted ==
    \A r \in EXCLUDE_REPOS :
        /\ r \notin fetchCalls
        /\ ~\E c \in deleteCalls : c[1] = r

\* C2: no delete request is ever issued for a tag of the protected set (the
\* first recent_count records by creation time descending), however old
C2_ProtectedNeverDeleted ==
    [][pc = "delete" =>
          \A t \in ProtectedSet : ~DeleteIssuedIn(deleteCalls', CurrentRepo, t)]_vars

C2_Witness ==
    /\ pc = "delete"
    /\ delIdx > Len(tag_details)
    /\ \E r \in Range(tag_details) : r.tag \in ProtectedSet /\ r.created < Threshold
    /\ \E r \in Range(tag_details) : DeleteIssuedIn(deleteCalls, CurrentRepo, r.tag)

\* C3: a record whose creation_time is at or after threshold = now -
\* age_threshold_days never gets a delete request, protected or not
C3_RecentEnoughNeverDeleted ==
    [][pc = "delete" =>
          \A r \in Range(tag_details) :
              r.created >= Threshold => ~DeleteIssuedIn(deleteCalls', CurrentRepo, r.tag)]_vars

C3_Witness ==
    /\ pc = "delete"
    /\ delIdx > Len(tag_details)
    /\ \E r \in Range(tag_details) :
          /\ r.created >= Threshold
          /\ r.tag \notin ProtectedSet
          /\ ~DeleteIssuedIn(deleteCalls, CurrentRepo, r.tag)
    /\ \E r \in Range(tag_details) : DeleteIssuedIn(deleteCalls, CurrentRepo, r.tag)

\* C4: when recent_count is at least the number of resolved records of the
\* repository, the delete loop issues no delete request at all
C4_CountCoversAllNoDeletion ==
    [][(pc = "delete" /\ RecentCountOf(CurrentRepo) >= Len(tag_details))
          => deleteCalls' = deleteCalls]_vars

C4_Witness ==
    /\ pc = "delete"
    /\ delIdx > Len(tag_details)
    /\ Len(tag_details) >= 2
    /\ RecentCountOf(CurrentRepo) >= Len(tag_details)
    /\ \A r \in Range(tag_details) : r.created < Threshold
    /\ deleted_count = 0

\* C5: a record outside the protected set gets a delete request for its
\* manifest digest if and only if creation_time < threshold
C5_UnprotectedDeletedIffExpired ==
    [][DeleteLoopStep =>
          LET rec == tag_details[delIdx] IN
            rec.tag \notin ProtectedSet =>
              ((<<CurrentRepo, rec.tag, rec.digest>> \in deleteCalls' \ deleteCalls)
                  <=> rec.created < Threshold)]_vars

C5_Witness ==
    /\ pc = "delete"
    /\ delIdx > Len(tag_details)
    /\ \E r, q \in Range(tag_details) :
          /\ r.tag \notin ProtectedSet
          /\ q.tag \notin ProtectedSet
          /\ r.created < Threshold
          /\ q.created >= Threshold
          /\ <<CurrentRepo, r.tag, r.digest>> \in deleteCalls
          /\ ~DeleteIssuedIn(deleteCalls, CurrentRepo, q.tag)

\* C6: with recent_count = 0 and age_threshold_days = 0 a record is deleted
\* exactly when its creation_time is strictly older than now; one created at
\* now is kept
C6_ZeroPolicyStrictBoundary ==
    [][(DeleteLoopStep /\ RecentCountOf(CurrentRepo) = 0
                       /\ DaysThresholdOf(CurrentRepo) = 0) =>
          LET rec == tag_details[delIdx] IN
            /\ rec.created < clock => <<CurrentRepo, rec.tag, rec.digest>> \in deleteCalls'
            /\ rec.created = clock => ~DeleteIssuedIn(deleteCalls', CurrentRepo, rec.tag)]_vars

C6_Witness ==
    /\ pc = "delete"
    /\ delIdx > Len(tag_details)
    /\ RecentCountOf(CurrentRepo) = 0
    /\ DaysThresholdOf(CurrentRepo) = 0
    /\ \E r, q \in Range(tag_details) :
          /\ r.created < clock
          /\ q.created = clock
          /\ DeleteIssuedIn(deleteCalls, CurrentRepo, r.tag)
          /\ ~DeleteIssuedIn(deleteCalls, CurrentRepo, q.tag)

\* C7: the decision is a function of its inputs: the output order is creation
\* time descending with ties in input order, the protected set is the first
\* recent_count of that order, and the marks follow from both, also when a tie
\* falls on the boundary of the protected set
C7_DecisionIsFunctionOfInputs ==
    pc = "delete" =>
        /\ \A i, j \in 1..Len(tag_details) :
              i < j => Before(tag_details[i], tag_details[j])
        /\ recent_tags = ProtectedSet
        /\ \A i \in 1..Len(tag_details) : i < delIdx =>
              (DeleteIssuedIn(deleteCalls, CurrentRepo, tag_details[i].tag)
                 <=> (tag_details[i].tag \notin ProtectedSet
                        /\ tag_details[i].created < Threshold))

C7_Witness ==
    /\ pc = "delete"
    /\ delIdx > Len(tag_details)
    /\ Len(tag_details) >= 2
    /\ RecentCountOf(CurrentRepo) = 1
    /\ tag_details[1].created = tag_details[2].created
    /\ tag_details[2].created < Threshold
    /\ DeleteIssuedIn(deleteCalls, CurrentRepo, tag_details[2].tag)

\* C8: a tag whose metadata did not resolve in this run never gets a delete
\* request in this run
C8_UnresolvedNeverDeleted ==
    \A u \in unresolved : ~DeleteIssuedIn(deleteCalls, u[1], u[2])

C8_Witness ==
    /\ pc = "delete"
    /\ delIdx > Len(tag_details)
    /\ \E u \in unresolved : u[1] = CurrentRepo
    /\ \E c \in deleteCalls : c[1] = CurrentRepo

\* C9: garbage collection is invoked at most once, only when every repository
\* of the catalog has been handled; no delete request follows it; the orphan
\* sweep starts only after garbage collection has returned
C9_PhaseOrder ==
    /\ [](/\ gcCalls <= 1
          /\ gcCalls >= 1 =>
                /\ pc \notin {"main", "resolve", "delete"}
                /\ \A r \in Range(Catalog) : r \in EXCLUDE_REPOS \/ r \in fetchCalls
          /\ sweepStarted => gcOutcome \in {"ok", "exit_nonzero"})
    /\ [][gcCalls >= 1 => deleteCalls' = deleteCalls]_vars

C9_Witness ==
    /\ pc = "done"
    /\ gcCalls = 1
    /\ sweepStarted
    /\ deleteCalls # {}

\* C10: a failed garbage collection (non-zero exit status or failure to launch)
\* is logged, not retried, and the orphan sweep still runs
C10_GcFailureDoesNotBlockSweep ==
    (gcOutcome \in {"exit_nonzero", "launch_failed"} /\ pc \in {"done", "caught"}) =>
        /\ <<"gc_failed", "", "">> \in log
        /\ gcCalls = 1
        /\ sweepStarted

\* C11: when the delete request for a tag fails (an answer other than 202, or a
\* transport error), the delete loop goes on with the next record
C11_FailedDeleteDoesNotStopLoop ==
    [][(DeleteLoopStep /\ deleteCalls' # deleteCalls /\ acceptedDeletes' = acceptedDeletes)
          => (pc' = "delete" /\ delIdx' = delIdx + 1)]_vars

\* C12: no failed fetch (catalog listing, tag listing, manifest, blob) ends the
\* run in the top-level except
FetchErrors ==
    CatalogErrors \cup
      {"tags: ConnectionError", "manifest: ConnectionError", "blob: ConnectionError"}
C12_FetchFailureNeverFatal ==
    \A e \in FetchErrors : <<"error", e, "">> \notin log

\* C13: a creation timestamp that cannot be parsed makes the run skip that tag
\* only; the failure does not reach the top-level except
C13_UnparseableTimestampSkipsTagOnly ==
    <<"error", "created: ValueError", "">> \notin log

\* C14: after an interrupt nothing new begins, a delete request in flight has
\* been allowed to complete, and the process has exited with status 0
C14_InterruptStopsCleanly ==
    <<"interrupted", "", "">> \in log => (pc = "exited" /\ inFlight = {})

\* C15: every run ends, and ends after the orphan sweep, in the top-level
\* except, or with exit status 0 on interrupt: a run that has not ended in one
\* of the three ways always has a next step (every call returns), and every
\* step strictly lowers a rank that is a natural number
Terminated == pc \in {"done", "caught", "exited"}
RepoWeight == 2 * Len(TagNames) + 3
SweepRank == Len(Catalog) + 2
Rank ==
    IF Terminated THEN 0
    ELSE IF pc = "sweep" THEN SweepRank - sweepIdx
    ELSE IF pc = "sweep_list" THEN SweepRank
    ELSE IF pc = "main" THEN SweepRank + 2 + Len(Catalog) * RepoWeight
    ELSE SweepRank + 1 + (Len(Catalog) + 1 - repoIdx) * RepoWeight
           - (IF pc = "resolve" THEN tagIdx
              ELSE IF pc = "delete" THEN Len(TagNames) + 1 + delIdx
              ELSE 0)
C15_RunTerminates ==
    /\ [](~Terminated => ENABLED Next)
    /\ [](Rank \in Nat /\ (Rank = 0 <=> Terminated))
    /\ [][Rank' < Rank]_vars

C15_Witness ==
    /\ pc = "done"
    /\ gcOutcome = "exit_nonzero"
    /\ deleteCalls # acceptedDeletes
    /\ \E r \in Repos : <<"remove_failed", r, "">> \in log

\* C16: an offset with a single-digit minute is corrected and parsed to the
\* intended offset, a well-formed explicit offset is parsed as written, and a
\* timestamp without zone is taken as UTC; none of them raises
ZoneOfCreated(created) ==
    CHOOSE zone \in Zones :
        \E day \in Times, fraction \in Fractions :
            created = <<DatePrefix(day), "0", "0">> \o fraction \o zone
HasOffset(zone) == zone # <<>> /\ zone # <<"Z">>
MinuteDigits(zone) == SubSeq(zone, 5, Len(zone))
IntendedOffset(zone) ==
    (IF zone[1] = "-" THEN -1 ELSE 1) *
       (60 * TwoDigits(zone, 2) +
          (IF Len(MinuteDigits(zone)) = 1 THEN DigitVal(zone[5]) ELSE TwoDigits(zone, 5)))
C16_TimestampParsedAsIntended ==
    LET zone == ZoneOfCreated(created_date) IN
      /\ parsePc # "raised"
      /\ parsePc = "returned" =>
            /\ HasOffset(zone) => dt[1].tz = <<IntendedOffset(zone)>>
            /\ zone = <<>> => dt[1].tz = <<0>>

\* C17: the per-repository deleted count equals the number of delete requests
\* of the repository that were accepted with 202
C17_DeletedCountIsAccepted ==
    pc = "delete" =>
        deleted_count = Cardinality({ c \in acceptedDeletes : c[1] = CurrentRepo })

\* C18: the orphan sweep removes the storage of a repository only if the
\* repository has no tag in the registry at that time
C18_SweepRemovesOnlyEmpty ==
    [][\A r \in removed' \ removed : registry[r] = <<>>]_vars

\* C19: no delete request is issued for a manifest digest that a tag of the
\* protected set of the repository resolves to
C19_ProtectedDigestNeverDeleted ==
    [][pc = "delete" =>
          \A c \in deleteCalls' \ deleteCalls :
              \A r \in Range(tag_details) :
                  r.tag \in ProtectedSet => r.digest # c[3]]_vars

\* C20: the storage of a repository of the exclusion set is never removed
C20_ExcludedNeverRemoved ==
    removed \cap EXCLUDE_REPOS = {}

====
